---- MODULE Spec2Model ----
(***************************************************************************)
(* Model of calculadora_paypal_gui.py: the quote service (ApiService), the *)
(* fee calculation (CalculatorModel.perform_calculation), the key handling *)
(* (CalculatorController) and the queue consumer (App.process_api_queue).  *)
(*                                                                         *)
(* Numbers.  Python floats are modelled by exact decimal fixed point:      *)
(*   - an amount is [neg, mant, places], the value (-1)^neg*mant/10^places *)
(*   - the numbers of the fee table and the fractions made of them are     *)
(*     kept in thousandths (6.40 = 6400, 0.30 = 300, 0.064 = 64)           *)
(*   - exchange rates are whole numbers of BRL                             *)
(*   - a product that does not fit TLC's 32-bit integers is kept as two    *)
(*     limbs [hi, lo] in base 10^4 together with its number of decimals.   *)
(* Text.  A tkinter StringVar holds a sequence of one-character strings.   *)
(***************************************************************************)
EXTENDS Integers, Sequences, FiniteSets, TLC

VARIABLES
    valor_str,        \* CalculatorModel.valor_str: the amount text
    moeda_var,        \* CalculatorModel.moeda_var: the selected currency
    resultado_final,  \* CalculatorModel.resultado_final_var (value before display formatting)
    detalhes,         \* CalculatorModel.detalhes_resultado_var
    history,          \* CalculatorModel.history, newest first
    settings,         \* SettingsManager.settings: last_currency and history
    active_var,       \* CalculatorController.active_var: "valor" or "None"
    setup_done,       \* whether the after(100, initial_setup) callback has run
    rate_cache,       \* ApiService.rate_cache: currency -> rate, NoRate when absent
    api_queue,        \* App.api_queue: the messages put and not yet taken
    threads,          \* the running _fetch_rate threads
    main_pc,          \* position of the UI thread inside get_exchange_rate
    pending,          \* the currency argument of the get_exchange_rate in progress
    requests,         \* history: every get_exchange_rate call, in call order
    tags,             \* history: for each message of api_queue, the request it
                      \*   answers and its number in the order of the puts
    put_count,        \* history: how many messages were put on api_queue
    delivered,        \* history: how many messages process_api_queue has taken
    last_taken,       \* history: the tag of the message taken last
    last_calc,        \* history: what the last perform_calculation call was given
    calc_in,          \* inputs of the stand-alone calculation (SpecCalc)
    calc_out,         \* its result
    fetch_in,         \* the currency and the provider's answer of the
                      \*   stand-alone _fetch_rate (SpecFetch)
    fetch_out,        \* what that _fetch_rate did
    polling,          \* whether an after(100, process_api_queue) callback is scheduled
    localized         \* whether the locale set in App.__init__ formats currency

vars == <<valor_str, moeda_var, resultado_final, detalhes, history, settings,
          active_var, setup_done, rate_cache, api_queue, threads, main_pc,
          pending, requests, tags, put_count, delivered, last_taken,
          last_calc, calc_in, calc_out, fetch_in, fetch_out, polling,
          localized>>

ui_vars == <<valor_str, moeda_var, resultado_final, detalhes, history, settings,
             active_var, setup_done>>
api_vars == <<rate_cache, api_queue, threads, main_pc, pending, requests, tags,
              put_count, delivered, last_taken, last_calc>>
calc_vars == <<calc_in, calc_out>>
env_vars == <<fetch_in, fetch_out, polling, localized>>

-----------------------------------------------------------------------------
(* Bounds of the model *)

\* how many get_exchange_rate calls a behaviour of Spec makes
MaxCalls == 3

\* how many get_exchange_rate calls a behaviour of SpecWide makes
MaxWideCalls == 2

-----------------------------------------------------------------------------
(* The fee table, lines 19-28 *)

PAYPAL_FEES ==
    [USD |-> [fee_percent |-> 6400, fixed_fee |-> 300,   spread_percent |-> 3500],
     EUR |-> [fee_percent |-> 6400, fixed_fee |-> 350,   spread_percent |-> 3500],
     GBP |-> [fee_percent |-> 6400, fixed_fee |-> 200,   spread_percent |-> 3500],
     JPY |-> [fee_percent |-> 6400, fixed_fee |-> 40000, spread_percent |-> 3500],
     CAD |-> [fee_percent |-> 6400, fixed_fee |-> 300,   spread_percent |-> 3500],
     AUD |-> [fee_percent |-> 6400, fixed_fee |-> 300,   spread_percent |-> 3500]]

DEFAULT_FEES == [fee_percent |-> 6400, fixed_fee |-> 300, spread_percent |-> 4500]

\* PAYPAL_FEES.get(moeda, DEFAULT_FEES)
FeesGet(moeda) ==
    IF moeda \in DOMAIN PAYPAL_FEES THEN PAYPAL_FEES[moeda] ELSE DEFAULT_FEES

-----------------------------------------------------------------------------
(* Text and numbers *)

DigitChars == <<"0", "1", "2", "3", "4", "5", "6", "7", "8", "9">>
Digits == {DigitChars[i] : i \in 1..10}
DigitVal(c) == (CHOOSE i \in 1..10 : DigitChars[i] = c) - 1

RECURSIVE Pow10(_)
Pow10(n) == IF n = 0 THEN 1 ELSE 10 * Pow10(n - 1)

\* str.replace(',', '.')
ReplaceComma(t) == [i \in DOMAIN t |-> IF t[i] = "," THEN "." ELSE t[i]]

CountOf(t, S) == Cardinality({i \in DOMAIN t : t[i] \in S})

RECURSIVE DigitsValue(_)
\* the number written by the digits of t, the point skipped
DigitsValue(t) ==
    IF t = <<>> THEN 0
    ELSE LET last == t[Len(t)]
             init == SubSeq(t, 1, Len(t) - 1)
         IN IF last = "." THEN DigitsValue(init)
            ELSE 10 * DigitsValue(init) + DigitVal(last)

\* how many characters follow the point (0 when there is none)
PlacesOf(t) ==
    IF \E i \in DOMAIN t : t[i] = "."
    THEN Len(t) - (CHOOSE i \in DOMAIN t : t[i] = ".")
    ELSE 0

RECURSIVE Normalize(_)
\* a float has no trailing fractional zeros: 100.00 is 100
Normalize(v) ==
    IF v.places > 0 /\ v.mant % 10 = 0
    THEN Normalize([v EXCEPT !.mant = v.mant \div 10, !.places = v.places - 1])
    ELSE v

\* float(text): an optional sign, digits with at most one point, at least
\* one digit; anything else raises ValueError (ok = FALSE)
PyFloat(t) ==
    LET neg  == t # <<>> /\ t[1] \in {"-", "+"}
        body == IF neg THEN Tail(t) ELSE t
        good == /\ \A i \in DOMAIN body : body[i] \in Digits \cup {"."}
                /\ CountOf(body, {"."}) <= 1
                /\ CountOf(body, Digits) >= 1
    IN IF good
       THEN [ok |-> TRUE] @@
            Normalize([neg |-> t[1] = "-", mant |-> DigitsValue(body),
                       places |-> PlacesOf(body)])
       ELSE [ok |-> FALSE, neg |-> FALSE, mant |-> 0, places |-> 0]

RECURSIVE NatStr(_)
\* the decimal digits of a natural number
NatStr(n) ==
    IF n < 10 THEN <<DigitChars[n + 1]>>
    ELSE Append(NatStr(n \div 10), DigitChars[(n % 10) + 1])

RECURSIVE PadLeft(_, _)
PadLeft(t, n) == IF Len(t) >= n THEN t ELSE PadLeft(<<"0">> \o t, n)

\* f"{value:.10g}" for a value of at most ten significant digits that is 0
\* or at least 0.0001 and below 10^10 (no exponent, no rounding): sign,
\* integer part, and the fraction without trailing zeros
FormatG(v) ==
    LET n == Normalize(v)
        p == Pow10(n.places)
    IN (IF n.neg THEN <<"-">> ELSE <<>>)
       \o NatStr(n.mant \div p)
       \o (IF n.places > 0
           THEN <<".">> \o PadLeft(NatStr(n.mant % p), n.places)
           ELSE <<>>)

RECURSIVE RStrip(_, _)
\* str.rstrip(c)
RStrip(t, c) ==
    IF t # <<>> /\ t[Len(t)] = c THEN RStrip(SubSeq(t, 1, Len(t) - 1), c) ELSE t

-----------------------------------------------------------------------------
(* The calculation, lines 132-156 *)

Base == Pow10(4)

Max(a, b) == IF a >= b THEN a ELSE b

\* a * b for a, b >= 0 and b < 10^5, as two limbs in base 10^4
Times(a, b) ==
    LET low == (a % Base) * b
    IN [hi |-> (a \div Base) * b + (low \div Base), lo |-> low % Base]

\* variant: the percentage used as a fraction without the division
PercentUndivided(x) == x

\* fees["fee_percent"] / 100 and fees["spread_percent"] / 100
Percent(x) == x \div 100

\* valor - (valor * tarifa_percentual) - taxa_fixa, in units of 10^-(places+3)
ValorAposTaxas(valor, fees) ==
    LET signed == IF valor.neg THEN 0 - valor.mant ELSE valor.mant
    IN signed * 1000 - signed * Percent(fees.fee_percent)
       - fees.fixed_fee * Pow10(valor.places)

\* variant: the net amount without the max(0, ...)
ValorLiquidoUnclamped(valor, fees) == ValorAposTaxas(valor, fees)

\* valor_liquido = max(0, valor_apos_taxas)
ValorLiquido(valor, fees) == Max(0, ValorAposTaxas(valor, fees))

\* cambio_final = exchange_rate * (1 - spread), in thousandths
CambioFinal(exchange_rate, fees) ==
    exchange_rate * (1000 - Percent(fees.spread_percent))

\* perform_calculation(exchange_rate) on the amount text and the currency:
\* ok = FALSE is the "Entrada invalida." return of line 144-146
PerformCalculation(text, moeda, exchange_rate) ==
    LET valor == PyFloat(ReplaceComma(text))
        fees  == FeesGet(moeda)
    IN IF ~valor.ok
       THEN [ok |-> FALSE]
       ELSE [ok       |-> TRUE,
             valor    |-> [neg |-> valor.neg, mant |-> valor.mant,
                           places |-> valor.places],
             moeda    |-> moeda,
             liquido  |-> ValorLiquido(valor, fees),
             cambio   |-> CambioFinal(exchange_rate, fees),
             final    |-> Times(ValorLiquido(valor, fees),
                                CambioFinal(exchange_rate, fees)),
             places   |-> valor.places + 6]

-----------------------------------------------------------------------------
(* Currencies, rates, keys *)

\* the values of the currency combobox, a part of list(PAYPAL_FEES.keys())
ComboValues == {"USD", "EUR"}

\* what settings.get('last_currency') may hold at start: the default and
\* the local currency written into the settings file
SettingsCurrencies == {"USD", "BRL"}

AllCurrencies == ComboValues \cup SettingsCurrencies

\* the rates the quote provider may answer with
Rates == {5, 6}

\* the provider's answers while the quote does not move
SteadyRates == {5}

\* a key of rate_cache that is absent
NoRate == 0

\* a key of a message that is absent (message.get(key, ''))
NoKey == ""

\* the keys of the keypad that are pressed: a digit, clear, backspace
\* (the key written as an erase-to-the-left sign) and sign change
Keys == {"0", "C", "BackSpace", "+/-"}

\* what the provider and the network can do to one request
Causes == {"transport", "timeout", "http_status", "non_json", "missing_key",
           "bid_not_numeric", "bid_null", "bad_shape"}

\* the exception a cause raises inside the try block of _fetch_rate.  A
\* body that is not JSON raises requests' JSONDecodeError, a
\* RequestException from requests 2.27 on and a plain ValueError before.
Raises(cause) ==
    CASE cause \in {"transport", "timeout", "http_status"} -> {"RequestException"}
      [] cause = "non_json"        -> {"RequestException", "ValueError"}
      [] cause = "missing_key"     -> {"KeyError"}
      [] cause = "bid_not_numeric" -> {"ValueError"}
      [] cause \in {"bid_null", "bad_shape"} -> {"TypeError"}

\* every exception some cause raises
Raised == UNION {Raises(cause) : cause \in Causes}

-----------------------------------------------------------------------------
(* Messages of api_queue, lines 84, 89, 92, 105, 107, 109 *)

SuccessMsg(rate) ==
    [status |-> "success", rate |-> rate, currency |-> NoKey, message |-> NoKey]

LoadingMsg(currency) ==
    [status |-> "loading", rate |-> NoRate, currency |-> currency, message |-> NoKey]

ConnectionErrorMsg ==
    [status |-> "error", rate |-> NoRate, currency |-> NoKey,
     message |-> "Erro de conexao."]

InvalidCurrencyMsg(currency) ==
    [status |-> "error", rate |-> NoRate, currency |-> NoKey,
     message |-> "Moeda '" \o currency \o "' invalida."]

\* api_queue.put(message), with the history of the put: the request it
\* answers and its number
Put(message, req) ==
    /\ api_queue' = Append(api_queue, message)
    /\ tags' = Append(tags, [req |-> req, seq |-> put_count + 1])
    /\ put_count' = put_count + 1

NoPut == UNCHANGED <<api_queue, tags, put_count>>

-----------------------------------------------------------------------------
(* ApiService *)

\* variant: no branch for the local currency
KindOfCacheOnly(currency) ==
    IF rate_cache[currency] # NoRate THEN "hit" ELSE "miss"

\* the branch get_exchange_rate takes: line 83, line 88, or neither
KindOf(currency) ==
    IF currency = "BRL" THEN "local"
    ELSE IF rate_cache[currency] # NoRate THEN "hit" ELSE "miss"

\* history: how many times rate_cache[currency] has been written
Version(currency) ==
    Cardinality({r \in DOMAIN requests :
                    requests[r].currency = currency /\ requests[r].stored})

\* the history of one get_exchange_rate call: its argument, the branch it
\* took, whether the amount text parsed when it was made, the version of the
\* cache entry it saw, the numbers of the puts of its loading message and of
\* its success or error message (0: none), how many success or error
\* messages were put for it, the rate of its success message, whether its
\* thread wrote the cache, and whether the work for it has ended
NewRequest(currency, text) ==
    [currency |-> currency, kind |-> KindOf(currency),
     valid |-> PyFloat(ReplaceComma(text)).ok, version |-> Version(currency),
     loading_seq |-> 0, terminal_seq |-> 0, terminals |-> 0, rate |-> NoRate,
     stored |-> FALSE, ended |-> FALSE]

\* get_exchange_rate(currency), lines 81-90: the local currency is
\* answered at once; otherwise the cache is looked up and the UI thread
\* goes on to line 89 or to line 92
get_exchange_rate(currency) ==
    /\ IF KindOf(currency) = "local"
       THEN /\ Put(SuccessMsg(1), Len(requests) + 1)
            /\ requests' = Append(requests,
                   [NewRequest(currency, valor_str') EXCEPT
                        !.terminal_seq = put_count + 1, !.terminals = 1,
                        !.rate = 1, !.ended = TRUE])
            /\ UNCHANGED <<main_pc, pending>>
       ELSE /\ main_pc' = KindOf(currency)
            /\ pending' = currency
            /\ requests' = Append(requests, NewRequest(currency, valor_str'))
            /\ NoPut
    /\ UNCHANGED <<rate_cache, threads, delivered, last_taken, last_calc>>

\* variant: a cached rate does not stop the loading message and the thread
get_exchange_rate_hit_fetching ==
    /\ main_pc = "hit"
    /\ Put(LoadingMsg(pending), Len(requests))
    /\ requests' = [requests EXCEPT ![Len(requests)].loading_seq = put_count + 1]
    /\ threads' = threads \cup {[req |-> Len(requests), currency |-> pending,
                                 pc |-> "fetching", rate |-> NoRate]}
    /\ main_pc' = "idle"
    /\ UNCHANGED <<rate_cache, pending, delivered, last_taken, last_calc>>
    /\ UNCHANGED <<ui_vars, calc_vars, env_vars>>

\* line 89: the cached rate is read and put
get_exchange_rate_hit ==
    /\ main_pc = "hit"
    /\ Put(SuccessMsg(rate_cache[pending]), Len(requests))
    /\ requests' = [requests EXCEPT ![Len(requests)] =
                        [@ EXCEPT !.terminal_seq = put_count + 1,
                                  !.terminals = @ + 1,
                                  !.rate = rate_cache[pending],
                                  !.version = Version(pending),
                                  !.ended = TRUE]]
    /\ main_pc' = "idle"
    /\ UNCHANGED <<rate_cache, threads, pending, delivered, last_taken, last_calc>>
    /\ UNCHANGED <<ui_vars, calc_vars, env_vars>>

\* variant: a call joins the thread already fetching its currency
get_exchange_rate_miss_coalescing ==
    /\ main_pc = "miss"
    /\ IF \E t \in threads : t.currency = pending
       THEN /\ NoPut
            /\ UNCHANGED <<requests, threads>>
       ELSE /\ Put(LoadingMsg(pending), Len(requests))
            /\ requests' = [requests EXCEPT
                                ![Len(requests)].loading_seq = put_count + 1]
            /\ threads' = threads \cup {[req |-> Len(requests),
                                         currency |-> pending,
                                         pc |-> "fetching", rate |-> NoRate]}
    /\ main_pc' = "idle"
    /\ UNCHANGED <<rate_cache, pending, delivered, last_taken, last_calc>>
    /\ UNCHANGED <<ui_vars, calc_vars, env_vars>>

\* lines 92-94: the loading message is put and the thread started
get_exchange_rate_miss ==
    /\ main_pc = "miss"
    /\ Put(LoadingMsg(pending), Len(requests))
    /\ requests' = [requests EXCEPT ![Len(requests)].loading_seq = put_count + 1]
    /\ threads' = threads \cup {[req |-> Len(requests), currency |-> pending,
                                 pc |-> "fetching", rate |-> NoRate]}
    /\ main_pc' = "idle"
    /\ UNCHANGED <<rate_cache, pending, delivered, last_taken, last_calc>>
    /\ UNCHANGED <<ui_vars, calc_vars, env_vars>>

\* variant: the rate is parsed and not stored
fetch_rate_store_unwritten(t, rate) ==
    /\ t.pc = "fetching"
    /\ threads' = (threads \ {t}) \cup {[t EXCEPT !.pc = "stored", !.rate = rate]}
    /\ NoPut
    /\ UNCHANGED <<rate_cache, requests, main_pc, pending, delivered, last_taken,
                   last_calc>>
    /\ UNCHANGED <<ui_vars, calc_vars, env_vars>>

\* _fetch_rate, lines 99-104: the request is answered with a rate, which
\* is parsed and stored
fetch_rate_store(t, rate) ==
    /\ t.pc = "fetching"
    /\ rate_cache' = [rate_cache EXCEPT ![t.currency] = rate]
    /\ threads' = (threads \ {t}) \cup {[t EXCEPT !.pc = "stored", !.rate = rate]}
    /\ requests' = [requests EXCEPT ![t.req].stored = TRUE]
    /\ NoPut
    /\ UNCHANGED <<main_pc, pending, delivered, last_taken, last_calc>>
    /\ UNCHANGED <<ui_vars, calc_vars, env_vars>>

\* _fetch_rate, line 105
fetch_rate_put(t) ==
    /\ t.pc = "stored"
    /\ Put(SuccessMsg(t.rate), t.req)
    /\ requests' = [requests EXCEPT ![t.req] =
                        [@ EXCEPT !.terminal_seq = put_count + 1,
                                  !.terminals = @ + 1, !.rate = t.rate,
                                  !.ended = TRUE]]
    /\ threads' = threads \ {t}
    /\ UNCHANGED <<rate_cache, main_pc, pending, delivered, last_taken, last_calc>>
    /\ UNCHANGED <<ui_vars, calc_vars, env_vars>>

\* the except clauses of lines 106-109 in their order: the message put for
\* an exception, NoMsg for an exception neither clause catches
NoMsg == [status |-> "none", rate |-> NoRate, currency |-> NoKey, message |-> NoKey]

Except(exception, currency) ==
    IF exception = "RequestException" THEN ConnectionErrorMsg
    ELSE IF exception \in {"KeyError", "ValueError"} THEN InvalidCurrencyMsg(currency)
    ELSE NoMsg

\* variant: a fetch that failed puts its error message and tries again
fetch_rate_raise_retrying(t, exception) ==
    /\ t.pc = "fetching"
    /\ IF Except(exception, t.currency) # NoMsg
       THEN /\ Put(Except(exception, t.currency), t.req)
            /\ requests' = [requests EXCEPT ![t.req] =
                                [@ EXCEPT !.terminal_seq = put_count + 1,
                                          !.terminals = @ + 1]]
            /\ threads' = threads
       ELSE /\ NoPut
            /\ requests' = [requests EXCEPT ![t.req].ended = TRUE]
            /\ threads' = threads \ {t}
    /\ UNCHANGED <<rate_cache, main_pc, pending, delivered, last_taken, last_calc>>
    /\ UNCHANGED <<ui_vars, calc_vars, env_vars>>

\* variant: a failed fetch removes the cache entry of its currency
fetch_rate_raise_evicting(t, exception) ==
    /\ t.pc = "fetching"
    /\ rate_cache' = [rate_cache EXCEPT ![t.currency] = NoRate]
    /\ IF Except(exception, t.currency) # NoMsg
       THEN /\ Put(Except(exception, t.currency), t.req)
            /\ requests' = [requests EXCEPT ![t.req] =
                                [@ EXCEPT !.terminal_seq = put_count + 1,
                                          !.terminals = @ + 1, !.ended = TRUE]]
       ELSE /\ NoPut
            /\ requests' = [requests EXCEPT ![t.req].ended = TRUE]
    /\ threads' = threads \ {t}
    /\ UNCHANGED <<main_pc, pending, delivered, last_taken, last_calc>>
    /\ UNCHANGED <<ui_vars, calc_vars, env_vars>>

\* _fetch_rate, lines 100-103 raising, and lines 106-109; an exception that
\* is not caught ends the thread
fetch_rate_raise(t, exception) ==
    /\ t.pc = "fetching"
    /\ IF Except(exception, t.currency) # NoMsg
       THEN /\ Put(Except(exception, t.currency), t.req)
            /\ requests' = [requests EXCEPT ![t.req] =
                                [@ EXCEPT !.terminal_seq = put_count + 1,
                                          !.terminals = @ + 1, !.ended = TRUE]]
       ELSE /\ NoPut
            /\ requests' = [requests EXCEPT ![t.req].ended = TRUE]
    /\ threads' = threads \ {t}
    /\ UNCHANGED <<rate_cache, main_pc, pending, delivered, last_taken, last_calc>>
    /\ UNCHANGED <<ui_vars, calc_vars, env_vars>>

-----------------------------------------------------------------------------
(* CalculatorController *)

\* a handler of the UI thread that asks for a rate runs when the thread is
\* idle; limit bounds the number of requests of a behaviour
CanCall(limit) == main_pc = "idle" /\ Len(requests) < limit

\* _handle_math_functions(key, current_value_str), lines 513-535, for the
\* sign change and for a key it does not know: the new text of active_var
HandleMathFunctions(key, current) ==
    LET value == IF current = <<>>
                 THEN [ok |-> TRUE, neg |-> FALSE, mant |-> 0, places |-> 0]
                 ELSE PyFloat(ReplaceComma(current))
    IN IF ~value.ok THEN current
       ELSE IF key = "+/-"
       THEN RStrip(RStrip(FormatG([value EXCEPT !.neg = ~value.neg]), "0"), ".")
       ELSE current

\* the text _handle_key_press leaves in active_var, lines 495-508
NewValue(key, current) ==
    IF key \in Digits
    THEN IF current = <<"0">> THEN <<key>> ELSE Append(current, key)
    ELSE IF key = "." /\ ~(\E i \in DOMAIN current : current[i] = ".")
    THEN Append(current, ".")
    ELSE IF key = "C" THEN <<"0">>
    ELSE IF key = "BackSpace"
    THEN IF Len(current) > 1 THEN SubSeq(current, 1, Len(current) - 1) ELSE <<"0">>
    ELSE HandleMathFunctions(key, current)

\* handle_action('key_press', key) -> _handle_key_press(key), lines 492-511
handle_key_press(key, limit) ==
    /\ CanCall(limit)
    /\ IF active_var = "None" \/ (key \in Digits /\ Len(valor_str) > 15)
       THEN UNCHANGED vars
       ELSE /\ valor_str' = NewValue(key, valor_str)
            /\ get_exchange_rate(moeda_var)
            /\ UNCHANGED <<moeda_var, resultado_final, detalhes, history, settings,
                           active_var, setup_done, calc_vars, env_vars>>

\* handle_action('calculate'), line 484 (the Return key, line 585)
calculate(limit) ==
    /\ CanCall(limit)
    /\ valor_str' = valor_str
    /\ get_exchange_rate(moeda_var)
    /\ UNCHANGED <<moeda_var, resultado_final, detalhes, history, settings,
                   active_var, setup_done, calc_vars, env_vars>>

\* the combobox writes moeda_var; the trace of line 242 runs
\* _on_currency_change, lines 311-320, which asks for a calculation
select_currency(currency, limit) ==
    /\ CanCall(limit)
    /\ moeda_var' = currency
    /\ valor_str' = valor_str
    /\ get_exchange_rate(currency)
    /\ UNCHANGED <<resultado_final, detalhes, history, settings, active_var,
                   setup_done, calc_vars, env_vars>>

\* App.initial_setup, lines 596-601
initial_setup(limit) ==
    /\ CanCall(limit)
    /\ ~setup_done
    /\ setup_done' = TRUE
    /\ active_var' = "valor"
    /\ valor_str' = valor_str
    /\ get_exchange_rate(moeda_var)
    /\ UNCHANGED <<moeda_var, resultado_final, detalhes, history, settings, calc_vars, env_vars>>

\* set_active_input, lines 456-460, from the FocusIn binding of the amount
\* entry (line 422)
set_active_input(entry) ==
    /\ main_pc = "idle"
    /\ active_var # entry
    /\ active_var' = entry
    /\ UNCHANGED <<valor_str, moeda_var, resultado_final, detalhes, history,
                   settings, setup_done, api_vars, calc_vars, env_vars>>

-----------------------------------------------------------------------------
(* The consumer *)

HistoryLimit == 20

\* _add_to_history, lines 172-180
AddToHistory(entry) ==
    LET all == <<entry>> \o history
    IN SubSeq(all, 1, IF Len(all) > HistoryLimit THEN HistoryLimit ELSE Len(all))

\* CalculatorModel.perform_calculation(exchange_rate), lines 132-156, as
\* process_api_queue calls it.  update_display_vars falls back to plain
\* formatting when the locale cannot format currency (lines 164-167);
\* _add_to_history does not, and locale.currency raises ValueError at line
\* 176 before the history and the settings are touched.
perform_calculation(exchange_rate) ==
    LET r == PerformCalculation(valor_str, moeda_var, exchange_rate)
    IN IF ~r.ok
       THEN /\ detalhes' = [kind |-> "text", text |-> "Entrada invalida.",
                            liquido |-> 0, cambio |-> 0]
            /\ UNCHANGED <<resultado_final, history, settings>>
       ELSE IF ~localized
       THEN /\ resultado_final' = [final |-> r.final, places |-> r.places]
            /\ detalhes' = [kind |-> "result", text |-> r.moeda,
                            liquido |-> r.liquido, cambio |-> r.cambio]
            /\ UNCHANGED <<history, settings>>
       ELSE /\ resultado_final' = [final |-> r.final, places |-> r.places]
            /\ detalhes' = [kind |-> "result", text |-> r.moeda,
                            liquido |-> r.liquido, cambio |-> r.cambio]
            /\ history' = AddToHistory([valor |-> r.valor, moeda |-> r.moeda,
                                        final |-> r.final, places |-> r.places])
            /\ settings' = [last_currency |-> r.moeda, history |-> history']

\* variant: the newest message is taken
TakenNewest(queue) == queue[Len(queue)]

\* Queue.get_nowait(), line 610: the oldest message is taken
Taken(queue) == Head(queue)
Rest(queue) == Tail(queue)

\* variant: an error message also clears the result
on_error_resetting(message) ==
    /\ detalhes' = [kind |-> "text", text |-> message.message,
                    liquido |-> 0, cambio |-> 0]
    /\ resultado_final' = [final |-> [hi |-> 0, lo |-> 0], places |-> 2]
    /\ UNCHANGED <<history, settings>>

\* lines 615-616: the error message is shown
on_error(message) ==
    /\ detalhes' = [kind |-> "text", text |-> message.message,
                    liquido |-> 0, cambio |-> 0]
    /\ UNCHANGED <<resultado_final, history, settings>>

\* lines 617-619: "Buscando cotacao para {currency}..."
on_loading(message) ==
    /\ detalhes' = [kind |-> "loading", text |-> message.currency,
                    liquido |-> 0, cambio |-> 0]
    /\ UNCHANGED <<resultado_final, history, settings>>

\* variant: the next poll is scheduled only after a message was handled
reschedule_when_handled == polling' = (api_queue # <<>>)

\* the finally clause, lines 622-623: self.after(100, self.process_api_queue)
reschedule == polling' = TRUE

\* App.process_api_queue, lines 607-623: one poll of the queue, run by the
\* scheduled callback; an exception of the handling leaves through the
\* finally clause as well
process_api_queue ==
    /\ main_pc = "idle"
    /\ polling
    /\ reschedule
    /\ UNCHANGED <<calc_vars, fetch_in, fetch_out, localized>>
    /\ IF api_queue = <<>>
       THEN UNCHANGED <<ui_vars, api_vars>>
       ELSE LET message == Taken(api_queue)
            IN /\ api_queue' = Rest(api_queue)
               /\ tags' = Rest(tags)
               /\ last_taken' = Taken(tags)
               /\ delivered' = delivered + 1
               /\ IF message.status = "success"
                  THEN /\ perform_calculation(message.rate)
                       /\ last_calc' = [req |-> Taken(tags).req,
                                        rate |-> message.rate,
                                        moeda |-> moeda_var,
                                        ok |-> PyFloat(ReplaceComma(valor_str)).ok]
                  ELSE /\ IF message.status = "error"
                          THEN on_error(message)
                          ELSE on_loading(message)
                       /\ last_calc' = last_calc
               /\ UNCHANGED <<valor_str, moeda_var, active_var, setup_done,
                              rate_cache, threads, main_pc, pending, requests,
                              put_count>>

-----------------------------------------------------------------------------
(* The application *)

NoCalc == [req |-> 0, rate |-> NoRate, moeda |-> NoKey, ok |-> FALSE]
NoResult == [done |-> FALSE, result |-> [ok |-> FALSE]]
NoInput == [text |-> <<>>, moeda |-> NoKey, rate |-> NoRate]
NoFetch == [currency |-> NoKey, cause |-> NoKey, rate |-> NoRate]
NoOutcome == [done |-> FALSE, exception |-> NoKey, message |-> NoMsg,
              cached |-> NoRate]

\* App.__init__, lines 555-563, with CalculatorModel.__init__, lines 116-130,
\* and ApiService.__init__, lines 77-79; last_currency is what
\* settings.get('last_currency') returns
InitApp(last_currency) ==
    /\ valor_str = <<"1", "0", "0", ".", "0", "0">>
    /\ moeda_var = last_currency
    /\ resultado_final = [final |-> [hi |-> 0, lo |-> 0], places |-> 2]
    /\ detalhes = [kind |-> "text", text |-> "Preencha os valores para calcular.",
                   liquido |-> 0, cambio |-> 0]
    /\ history = <<>>
    /\ settings = [last_currency |-> last_currency, history |-> <<>>]
    /\ active_var = "None"
    /\ setup_done = FALSE
    /\ rate_cache = [c \in AllCurrencies |-> NoRate]
    /\ api_queue = <<>>
    /\ threads = {}
    /\ main_pc = "idle"
    /\ pending = NoKey
    /\ requests = <<>>
    /\ tags = <<>>
    /\ put_count = 0
    /\ delivered = 0
    /\ last_taken = [req |-> 0, seq |-> 0]
    /\ last_calc = NoCalc
    /\ polling = TRUE

\* the locale pt_BR is installed (line 550)
Init ==
    /\ \E last_currency \in SettingsCurrencies : InitApp(last_currency)
    /\ localized = TRUE
    /\ calc_in = NoInput
    /\ calc_out = NoResult
    /\ fetch_in = NoFetch
    /\ fetch_out = NoOutcome

\* Spec: requests made by choosing a currency and by the Return key, the
\* provider's quote steady
Next ==
    \/ calculate(MaxCalls)
    \/ \E currency \in ComboValues : select_currency(currency, MaxCalls)
    \/ get_exchange_rate_hit
    \/ get_exchange_rate_miss
    \/ \E t \in threads, rate \in SteadyRates : fetch_rate_store(t, rate)
    \/ \E t \in threads : fetch_rate_put(t)
    \/ \E t \in threads, exception \in Raised : fetch_rate_raise(t, exception)
    \/ process_api_queue

Spec == Init /\ [][Next]_vars

\* SpecWide: fewer requests, made also by the keypad, the quote moving
NextWide ==
    \/ initial_setup(MaxWideCalls)
    \/ \E key \in Keys : handle_key_press(key, MaxWideCalls)
    \/ calculate(MaxWideCalls)
    \/ \E currency \in ComboValues : select_currency(currency, MaxWideCalls)
    \/ set_active_input("valor")
    \/ get_exchange_rate_hit
    \/ get_exchange_rate_miss
    \/ \E t \in threads, rate \in Rates : fetch_rate_store(t, rate)
    \/ \E t \in threads : fetch_rate_put(t)
    \/ \E t \in threads, exception \in Raised : fetch_rate_raise(t, exception)
    \/ process_api_queue

SpecWide == Init /\ [][NextWide]_vars

-----------------------------------------------------------------------------
(* SpecPoll: the application with either kind of locale, the scheduled     *)
(* poll and the UI thread's own steps being run                            *)

\* how many get_exchange_rate calls a behaviour of SpecPoll makes
MaxPollCalls == 2

\* App.__init__, lines 550-553: pt_BR when installed, else the locale of
\* the environment, which may be one that cannot format currency
InitPoll ==
    /\ \E last_currency \in SettingsCurrencies : InitApp(last_currency)
    /\ localized \in BOOLEAN
    /\ calc_in = NoInput
    /\ calc_out = NoResult
    /\ fetch_in = NoFetch
    /\ fetch_out = NoOutcome

NextPoll ==
    \/ calculate(MaxPollCalls)
    \/ \E currency \in ComboValues : select_currency(currency, MaxPollCalls)
    \/ get_exchange_rate_hit
    \/ get_exchange_rate_miss
    \/ \E t \in threads, rate \in SteadyRates : fetch_rate_store(t, rate)
    \/ \E t \in threads : fetch_rate_put(t)
    \/ \E t \in threads, exception \in Raised : fetch_rate_raise(t, exception)
    \/ process_api_queue

\* a poll is scheduled, the UI thread is free to run it, and it has a
\* message to take: ENABLED <<process_api_queue>>_vars written out
PollReady == main_pc = "idle" /\ polling /\ api_queue # <<>>

\* the Tk main loop runs a scheduled callback (weak fairness of
\* process_api_queue, its enabling condition being PollReady), and the UI
\* thread goes on inside get_exchange_rate
SpecPoll ==
    /\ InitPoll
    /\ [][NextPoll]_vars
    /\ (<>[]PollReady => []<><<process_api_queue>>_vars)
    /\ WF_vars(get_exchange_rate_hit)
    /\ WF_vars(get_exchange_rate_miss)

-----------------------------------------------------------------------------
(* SpecCalc: perform_calculation as a function of the amount text, the     *)
(* currency and the rate                                                   *)

\* the largest amount, in hundredths, among the amounts 0.00, 0.01, ...
MaxCents == 40

\* the largest rate among the rates 1, 2, ...
MaxRate == 6

\* "0.00", "0.01", ...
CentsText(n) == NatStr(n \div 100) \o <<".">> \o PadLeft(NatStr(n % 100), 2)

CalcTexts ==
    {CentsText(n) : n \in 0..MaxCents}
    \cup {<<"1", "0", "0", "0", ".", "0", "0">>, <<"1", "0", "0">>,
          <<"4", "2">>, <<"4", "3">>, <<"1", ",", "5">>, <<"5", ".">>,
          <<"-", "5">>, <<>>, <<"-">>, <<"1", "2", ".", "3", ".", "4">>}

CalcCurrencies == DOMAIN PAYPAL_FEES \cup {"BRL", "CHF"}

InitCalc ==
    /\ InitApp("USD")
    /\ localized = TRUE
    /\ calc_in \in [text : CalcTexts, moeda : CalcCurrencies, rate : 1..MaxRate]
    /\ calc_out = NoResult
    /\ fetch_in = NoFetch
    /\ fetch_out = NoOutcome

calculation ==
    /\ ~calc_out.done
    /\ calc_out' = [done |-> TRUE,
                    result |-> PerformCalculation(calc_in.text, calc_in.moeda,
                                                  calc_in.rate)]
    /\ UNCHANGED <<calc_in, ui_vars, api_vars, env_vars>>

NextCalc == calculation

SpecCalc == InitCalc /\ [][NextCalc]_vars

-----------------------------------------------------------------------------
(* SpecFetch: _fetch_rate as a function of the currency and of what the    *)
(* provider answers                                                        *)

\* the currencies _fetch_rate can be called for: every one but the local
FetchCurrencies == CalcCurrencies \ {"BRL"}

\* the provider's answers: a quote with a bid, or one of the causes of
\* failure
Answers ==
    {[cause |-> "none", rate |-> rate] : rate \in 1..MaxRate}
    \cup {[cause |-> cause, rate |-> NoRate] : cause \in Causes}

InitFetch ==
    /\ InitApp("USD")
    /\ localized = TRUE
    /\ calc_in = NoInput
    /\ calc_out = NoResult
    /\ \E currency \in FetchCurrencies, answer \in Answers :
          fetch_in = [currency |-> currency, cause |-> answer.cause,
                      rate |-> answer.rate]
    /\ fetch_out = NoOutcome

\* lines 99-105: nothing raises
fetch_rate_returns ==
    /\ ~fetch_out.done
    /\ fetch_in.cause = "none"
    /\ fetch_out' = [done |-> TRUE, exception |-> NoKey,
                     message |-> SuccessMsg(fetch_in.rate),
                     cached |-> fetch_in.rate]
    /\ UNCHANGED <<fetch_in, polling, localized, ui_vars, api_vars, calc_vars>>

\* lines 100-103 raise, lines 106-109 handle
fetch_rate_raises(exception) ==
    /\ ~fetch_out.done
    /\ fetch_in.cause \in Causes
    /\ exception \in Raises(fetch_in.cause)
    /\ fetch_out' = [done |-> TRUE, exception |-> exception,
                     message |-> Except(exception, fetch_in.currency),
                     cached |-> NoRate]
    /\ UNCHANGED <<fetch_in, polling, localized, ui_vars, api_vars, calc_vars>>

NextFetch ==
    \/ fetch_rate_returns
    \/ \E exception \in Raised : fetch_rate_raises(exception)

SpecFetch == InitFetch /\ [][NextFetch]_vars

-----------------------------------------------------------------------------
(* Properties of the quote service.  C1 and C4 hold in every               *)
(* specification of the application and are checked in SpecPoll; the       *)
(* others need three calls and are checked in Spec                         *)

\* the requests get_exchange_rate answered from a thread
Misses == {r \in DOMAIN requests : requests[r].kind = "miss"}

\* C1: for a request of a currency that is not local and not cached, the
\* loading message is put by the caller before the thread runs, so it
\* precedes the request's success or error message in the queue; a thread
\* that succeeds has written rate_cache before it puts its success message;
\* and a fetch puts at most one success or error message.
C1_LoadingStoreTerminal ==
    /\ \A t \in threads :
          /\ requests[t.req].loading_seq > 0
          /\ requests[t.req].terminals = 0
          /\ t.pc = "stored" => rate_cache[t.currency] # NoRate
    /\ \A r \in Misses :
          /\ requests[r].terminals <= 1
          /\ requests[r].terminals = 1 =>
                /\ 0 < requests[r].loading_seq
                /\ requests[r].loading_seq < requests[r].terminal_seq
          /\ requests[r].rate # NoRate =>
                /\ requests[r].stored
                /\ rate_cache[requests[r].currency] # NoRate
    /\ \A i, j \in DOMAIN api_queue :
          (/\ tags[i].req = tags[j].req
           /\ api_queue[i].status = "loading"
           /\ api_queue[j].status # "loading") => i < j

\* a fetch has succeeded and its success message has been taken from the
\* queue after its loading message
C1_Witness ==
    \E r \in Misses :
        /\ requests[r].rate # NoRate
        /\ requests[r].terminals = 1
        /\ last_taken.req = r
        /\ last_taken.seq = requests[r].terminal_seq

\* C2 (as amended): a get_exchange_rate call that finds an entry of
\* rate_cache for the currency puts one success message with the cached
\* rate, puts no loading message and starts no thread; so two such calls
\* for one currency with no write of rate_cache between them put the
\* identical rate.
C2_CachedIdempotent ==
    /\ \A r \in DOMAIN requests :
          requests[r].kind = "hit" =>
             /\ requests[r].loading_seq = 0
             /\ ~requests[r].stored
             /\ \A t \in threads : t.req # r
             /\ requests[r].ended =>
                   /\ requests[r].terminals = 1
                   /\ requests[r].rate # NoRate
                   /\ requests[r].rate = rate_cache[requests[r].currency]
    /\ \A i, j \in DOMAIN requests :
          (/\ i < j
           /\ requests[i].kind = "hit" /\ requests[j].kind = "hit"
           /\ requests[i].ended /\ requests[j].ended
           /\ requests[i].currency = requests[j].currency
           /\ requests[i].version = requests[j].version)
          => requests[i].rate = requests[j].rate

\* two calls for one currency, both answered from the cache, no write of
\* the cache between them
C2_Witness ==
    \E i, j \in DOMAIN requests :
        /\ i < j
        /\ requests[i].kind = "hit" /\ requests[j].kind = "hit"
        /\ requests[i].ended /\ requests[j].ended
        /\ requests[i].currency = requests[j].currency
        /\ requests[i].version = requests[j].version
        /\ requests[i].rate = requests[j].rate
        /\ delivered = put_count

\* C2 (as written): any two get_exchange_rate calls for one currency with
\* no write of rate_cache between them start no second fetch, the second
\* being answered from the cache.
C2_AnyTwoCalls ==
    \A i, j \in DOMAIN requests :
        (/\ i < j
         /\ requests[i].currency = requests[j].currency
         /\ requests[i].version = requests[j].version)
        => requests[j].kind # "miss"

\* C3: in every calculation performed, the rate used was obtained for the
\* currency whose fee schedule is used (a success message of a request made
\* before the currency was changed is not applied to the new currency).
C3_RateOfSelectedCurrency ==
    (last_calc.req # 0 /\ last_calc.ok) =>
        requests[last_calc.req].currency = last_calc.moeda

\* C4: get_exchange_rate("BRL") starts no thread, puts no loading message,
\* leaves rate_cache alone and puts exactly one success message, with the
\* rate 1.
C4_LocalShortCircuit ==
    /\ rate_cache["BRL"] = NoRate
    /\ \A t \in threads : t.currency # "BRL"
    /\ \A r \in DOMAIN requests :
          requests[r].currency = "BRL" =>
             /\ requests[r].kind = "local"
             /\ requests[r].loading_seq = 0
             /\ requests[r].terminals = 1
             /\ requests[r].rate = 1
             /\ ~requests[r].stored
             /\ requests[r].ended
             /\ \A t \in threads : t.req # r
    /\ \A i \in DOMAIN api_queue :
          requests[tags[i].req].currency = "BRL" => api_queue[i] = SuccessMsg(1)

\* a request of the local currency was answered and the calculation ran
\* with the rate 1
C4_Witness ==
    \E r \in DOMAIN requests :
        /\ requests[r].currency = "BRL"
        /\ last_calc.req = r
        /\ last_calc.rate = 1
        /\ last_calc.moeda = "BRL"

\* C5: a fetch that fails puts an error message and leaves rate_cache as it
\* was.
C5_FailureEmitsError ==
    \A r \in Misses :
        (requests[r].ended /\ requests[r].rate = NoRate) =>
            /\ requests[r].terminals = 1
            /\ ~requests[r].stored

\* C10: process_api_queue takes the messages in the order of their puts,
\* whatever the order of the requests they answer.
C10_DeliveredInPutOrder ==
    /\ Len(tags) = Len(api_queue)
    /\ put_count = delivered + Len(api_queue)
    /\ \A i \in DOMAIN tags :
          /\ tags[i].seq = delivered + i
          /\ api_queue[i].status = "loading"
                <=> tags[i].seq = requests[tags[i].req].loading_seq
          /\ api_queue[i].status # "loading"
                <=> tags[i].seq = requests[tags[i].req].terminal_seq
    /\ delivered > 0 => last_taken.seq = delivered

\* everything put has been taken; of two fetches the later request was
\* answered first, and a request answered from the cache was answered
\* before an earlier request that went to the network
C10_Witness ==
    /\ delivered = put_count
    /\ \E i, j \in Misses :
          /\ i < j
          /\ requests[i].terminals = 1 /\ requests[j].terminals = 1
          /\ requests[j].terminal_seq < requests[i].terminal_seq
    /\ \E i \in Misses, k \in DOMAIN requests :
          /\ i < k
          /\ requests[k].kind = "hit"
          /\ requests[i].terminals = 1 /\ requests[k].terminals = 1
          /\ requests[k].terminal_seq < requests[i].terminal_seq

\* C15: every get_exchange_rate call that put a loading message gets
\* exactly one success or error message from its thread, whatever the
\* provider answers: no thread ends without having put one.
C15_EveryFetchAnswered ==
    \A r \in Misses :
        (requests[r].loading_seq > 0 /\ requests[r].ended) =>
            /\ requests[r].terminals = 1
            /\ requests[r].terminal_seq > requests[r].loading_seq

-----------------------------------------------------------------------------
(* Properties of the key handling and the consumer.  C11 and C13 are       *)
(* checked in SpecPoll, the others in SpecWide                             *)

\* C6: no get_exchange_rate call is made while the amount text does not
\* parse as a number.
C6_NoRequestForMalformed ==
    \A r \in DOMAIN requests : requests[r].valid

\* C9: when process_api_queue takes an error message it shows the message
\* and changes nothing else: the amount text, the selected currency, the
\* final result, the history, the settings and rate_cache stay, and no
\* calculation is performed.
C9_ErrorFrame ==
    [][(/\ api_queue # <<>>
        /\ Head(api_queue).status = "error"
        /\ delivered' = delivered + 1)
       => /\ detalhes'.kind = "text"
          /\ detalhes'.text = Head(api_queue).message
          /\ valor_str' = valor_str
          /\ moeda_var' = moeda_var
          /\ resultado_final' = resultado_final
          /\ history' = history
          /\ settings' = settings
          /\ rate_cache' = rate_cache
          /\ last_calc' = last_calc]_vars

\* an error message was taken after a calculation had filled the result
\* and the history
C9_Witness ==
    /\ last_taken.req # 0
    /\ requests[last_taken.req].kind = "miss"
    /\ requests[last_taken.req].terminal_seq = last_taken.seq
    /\ requests[last_taken.req].rate = NoRate
    /\ detalhes.kind = "text"
    /\ detalhes.text = ConnectionErrorMsg.message
    /\ history # <<>>
    /\ resultado_final.final # [hi |-> 0, lo |-> 0]

\* C11: rate_cache never loses an entry: a currency whose rate was written
\* once has an entry in every later state, and every get_exchange_rate call
\* made for it afterwards is answered from the cache, no thread started.
C11_CacheOnlyGrows ==
    /\ \A c \in DOMAIN rate_cache :
          Version(c) > 0 <=> rate_cache[c] # NoRate
    /\ \A r \in DOMAIN requests :
          /\ requests[r].stored => rate_cache[requests[r].currency] # NoRate
          /\ requests[r].kind = "miss" => requests[r].version = 0
          /\ requests[r].version > 0 =>
                /\ requests[r].kind = "hit"
                /\ requests[r].loading_seq = 0
                /\ \A t \in threads : t.req # r
    /\ \A t \in threads : requests[t.req].version = 0

\* a rate was written and a call made for the currency after the write
\* was answered from the cache with the entry still there
C11_Witness ==
    \E i, k \in DOMAIN requests :
        /\ i < k
        /\ requests[i].currency = requests[k].currency
        /\ requests[i].stored
        /\ requests[k].kind = "hit"
        /\ requests[k].ended
        /\ requests[k].version > 0
        /\ rate_cache[requests[k].currency] = requests[k].rate

\* the requests whose get_exchange_rate call has returned
Returned ==
    {r \in DOMAIN requests : r < Len(requests) \/ main_pc = "idle"}

C14_NoDeduplication ==
    /\ \A r \in Misses \cap Returned :
          /\ requests[r].loading_seq > 0
          /\ requests[r].ended \/ \E t \in threads : t.req = r
    /\ \A i, j \in Misses \cap Returned :
          i # j => requests[i].loading_seq # requests[j].loading_seq
    /\ \A r \in Misses :
          (requests[r].stored /\ requests[r].ended) =>
              /\ requests[r].terminals = 1
              /\ requests[r].rate # NoRate
    /\ \A c \in DOMAIN rate_cache :
          rate_cache[c] # NoRate =>
              \/ \E r \in Misses :
                    /\ requests[r].currency = c
                    /\ requests[r].stored
                    /\ requests[r].rate = rate_cache[c]
              \/ \E t \in threads :
                    /\ t.currency = c
                    /\ t.pc = "stored"
                    /\ t.rate = rate_cache[c]

\* two calls for one currency, the second made before the first fetch
\* ended; both threads wrote the cache, with different rates, and both put
\* a success message
C14_Witness ==
    \E i, j \in Misses :
        /\ i < j
        /\ requests[i].currency = requests[j].currency
        /\ requests[j].loading_seq < requests[i].terminal_seq
        /\ requests[i].stored /\ requests[j].stored
        /\ requests[i].terminals = 1 /\ requests[j].terminals = 1
        /\ requests[i].rate # requests[j].rate
        /\ rate_cache[requests[i].currency] \in {requests[i].rate, requests[j].rate}

-----------------------------------------------------------------------------
(* Properties of the calculation: SpecCalc *)

\* the schedules as the fee table states them: the fixed fee in hundredths
\* and the spread in thousandths; the fee is 64 thousandths for all
ScheduleFixed(moeda) ==
    CASE moeda = "EUR" -> 35
      [] moeda = "GBP" -> 20
      [] moeda = "JPY" -> 4000
      [] OTHER -> 30

ScheduleSpread(moeda) ==
    IF moeda \in {"USD", "EUR", "GBP", "JPY", "CAD", "AUD"} THEN 35 ELSE 45

\* max(0, A - A*feePercent - fixedFee) in units of 10^-(places+3)
ExpectedNet(valor, moeda) ==
    LET net == valor.mant * (1000 - 64) - ScheduleFixed(moeda) * Pow10(valor.places + 1)
    IN IF net > 0 THEN net ELSE 0

\* net * rate * (1 - spreadPercent) in units of 10^-(places+6), the product
\* split at 10^3 and carried into the limbs
ExpectedFinal(valor, moeda, rate) ==
    LET x   == ExpectedNet(valor, moeda) * rate
        y   == 1000 - ScheduleSpread(moeda)
        p1  == (x \div 1000) * y
        p0  == (x % 1000) * y
        rem == (p1 % 10) * 1000 + p0
    IN [hi |-> (p1 \div 10) + (rem \div Pow10(4)), lo |-> rem % Pow10(4)]

\* A - A*feePercent - fixedFee <= 0
FeesExceed(valor, moeda) ==
    valor.mant * (1000 - 64) <= ScheduleFixed(moeda) * Pow10(valor.places + 1)

\* the scenario: schedule 6.40 % / 0.30 / 3.50 %, amount 1000.00, rate 5
Scenario == [text |-> <<"1", "0", "0", "0", ".", "0", "0">>, moeda |-> "USD", rate |-> 5]

\* the result follows the formula for every schedule, non-negative amount
\* and positive rate
FormulaHolds ==
    (calc_out.done /\ calc_out.result.ok /\ ~calc_out.result.valor.neg) =>
        LET r == calc_out.result
        IN /\ r.liquido = ExpectedNet(r.valor, calc_in.moeda)
           /\ r.cambio = calc_in.rate * (1000 - ScheduleSpread(calc_in.moeda))
           /\ r.final = ExpectedFinal(r.valor, calc_in.moeda, calc_in.rate)
           /\ r.places = r.valor.places + 6

\* C7 (as amended): final = max(0, A - A*feePercent - fixedFee) * rate *
\* (1 - spreadPercent), the percentages being the schedule's divided by
\* 100; the scenario gives net 935.70, effective rate 4.825 and final
\* 4514.7525.
C7_FeeFormula ==
    /\ FormulaHolds
    /\ (calc_out.done /\ calc_in = Scenario) =>
          /\ calc_out.result.ok
          /\ calc_out.result.liquido = 935700
          /\ calc_out.result.cambio = 4825
          /\ calc_out.result.final = [hi |-> 451475, lo |-> 2500]
          /\ calc_out.result.places = 6

\* the scenario has been calculated
C7_Witness ==
    /\ calc_out.done
    /\ calc_in = Scenario
    /\ calc_out.result.ok
    /\ calc_out.result.liquido > 0

\* C7 (as written): the same formula, the scenario giving final 4514.9625.
C7_ScenarioAsWritten ==
    /\ FormulaHolds
    /\ (calc_out.done /\ calc_in = Scenario) =>
          /\ calc_out.result.ok
          /\ calc_out.result.liquido = 935700
          /\ calc_out.result.cambio = 4825
          /\ calc_out.result.final = [hi |-> 451496, lo |-> 2500]
          /\ calc_out.result.places = 6

\* C8: the final value is never negative for a non-negative amount and a
\* positive rate; when the fees exceed the amount (the amount 0 included)
\* the net amount is clamped to 0 and the final value is exactly 0.
C8_NeverNegative ==
    (calc_out.done /\ calc_out.result.ok /\ ~calc_out.result.valor.neg) =>
        LET r == calc_out.result
        IN /\ r.liquido >= 0
           /\ r.final.hi >= 0 /\ r.final.lo >= 0
           /\ FeesExceed(r.valor, calc_in.moeda) =>
                 /\ r.liquido = 0
                 /\ r.final = [hi |-> 0, lo |-> 0]

\* a positive amount smaller than the fees was calculated to 0
C8_Witness ==
    /\ calc_out.done
    /\ calc_out.result.ok
    /\ ~calc_out.result.valor.neg
    /\ calc_out.result.valor.mant > 0
    /\ calc_out.result.valor.mant * (1000 - 64)
          < ScheduleFixed(calc_in.moeda) * Pow10(calc_out.result.valor.places + 1)
    /\ calc_out.result.final = [hi |-> 0, lo |-> 0]

-----------------------------------------------------------------------------
(* Properties of the fetch: SpecFetch *)

\* C12: a failed fetch is classified by its cause: a transport failure, a
\* timeout or a status that is not 2xx gives the connection error; a missing
\* key or bid, or a bid that is not a number, gives the invalid-currency
\* error naming the currency; and no failure gives a success message.
C12_ClassifiedByCause ==
    fetch_out.done =>
        /\ fetch_in.cause \in {"transport", "timeout", "http_status"} =>
              /\ fetch_out.message.status = "error"
              /\ fetch_out.message.message = "Erro de conexao."
        /\ fetch_in.cause \in {"missing_key", "bid_not_numeric", "bid_null"} =>
              /\ fetch_out.message.status = "error"
              /\ fetch_out.message.message =
                    "Moeda '" \o fetch_in.currency \o "' invalida."
        /\ fetch_in.cause # "none" =>
              /\ fetch_out.message.status # "success"
              /\ fetch_out.cached = NoRate

-----------------------------------------------------------------------------
(* Properties of the consumer: SpecPoll *)

\* a step that takes a message takes exactly the oldest one, and calls
\* perform_calculation once if and only if it is a success message
TakesOne ==
    /\ (delivered' # delivered \/ Len(api_queue') < Len(api_queue)) =>
          /\ api_queue # <<>>
          /\ delivered' = delivered + 1
          /\ api_queue' = Tail(api_queue)
          /\ last_taken' = Head(tags)
          /\ IF Head(api_queue).status = "success"
             THEN /\ last_calc' # last_calc
                  /\ last_calc'.req = Head(tags).req
                  /\ last_calc'.rate = Head(api_queue).rate
             ELSE last_calc' = last_calc
    /\ last_calc' # last_calc => delivered' = delivered + 1

\* C16: process_api_queue takes at most one message per poll, the oldest
\* first, performs one calculation per success message taken, and always
\* schedules the next poll, also when the queue is empty and when the
\* handling raises; so every message put is eventually taken, once.
C16_PollConsumes ==
    /\ [][TakesOne]_vars
    /\ [](polling /\ delivered <= put_count
             /\ (delivered > 0 => last_taken.seq = delivered))
    /\ \A k \in 1..(2 * MaxPollCalls) : (put_count >= k) ~> (delivered >= k)

\* every message put was taken, among them a success message whose
\* handling raised in _add_to_history
C16_Witness ==
    /\ ~localized
    /\ put_count >= 3
    /\ delivered = put_count
    /\ api_queue = <<>>
    /\ last_calc.ok
    /\ detalhes.kind = "result"
    /\ history = <<>>

====
